---- MODULE Spec2Model ----
(***************************************************************************)
(* Model of app.py, the Streamlit "Data Explorer" script.                  *)
(*                                                                         *)
(* The script is re-run top to bottom on every widget change.  One action  *)
(* of the model is one user interaction followed by the whole script run:  *)
(* load_file (memoised by st.cache_data), the three stop gates, sampling,  *)
(* clean() on the full and on the display data, and the four tabs.         *)
(*                                                                         *)
(* Library calls are modelled by what pandas 1.5 / scikit-learn do (the    *)
(* release line on which both describe(datetime_is_numeric=) and           *)
(* corr(numeric_only=) of app.py exist).                                   *)
(***************************************************************************)
EXTENDS Integers, Sequences, FiniteSets

VARIABLES
    uploaded,     \* file is not None                      (app.py:48)
    file,         \* the UploadedFile: [name, content]     (app.py:48)
    sheet,        \* "Excel sheet name (optional)"         (app.py:49)
    drop_dupes,   \* checkbox, default True                (app.py:52)
    impute_num,   \* checkbox, default True                (app.py:53)
    impute_cat,   \* checkbox, default True                (app.py:54)
    sample_rows,  \* slider, default 0                     (app.py:57)
    chart,        \* the five Chart Builder select boxes   (app.py:149-153)
    pcaw,         \* the PCA check box and slider          (app.py:210-211)
    seed7,        \* the row order random_state=7 gives, per frame length
    cache,        \* st.cache_data memo table of load_file (app.py:14)
    served,       \* the last run's load_file call was answered by the memo table
    view          \* what the last run of the script computed and rendered

vars == <<uploaded, file, sheet, drop_dupes, impute_num, impute_cat,
          sample_rows, chart, pcaw, seed7, cache, served, view>>

(***************************************************************************)
(* Bounds of the model.                                                    *)
(***************************************************************************)
\* rows of an uploaded table in the cleaning / chart specifications
MaxRows == 3
\* rows and numeric columns of an uploaded table in the PCA specification
MaxPcaRows == 3
MaxPcaCols == 3
\* the slider of app.py:57 goes from 0 (= all) in steps of 1000; the model
\* keeps one step, at the scale of its tables
SampleStep == 2
\* entries the memo table may hold before the model stops adding new ones
MaxCache == 2

\* upper end of the "Components to compute" slider         (app.py:211)
MaxComponents == 10
\* lower end and default of that slider                    (app.py:211)
MinComponents == 2
\* columns and rows PCA's gate asks for                    (app.py:207)
PcaGateMin == 2

(***************************************************************************)
(* Cells, frames.                                                          *)
(* A cell is NaN, a number or a string.  A frame is a DataFrame: the dtype *)
(* kind of each column ("num" is np.number, "obj" is everything else), the *)
(* index labels, and the rows.                                             *)
(***************************************************************************)
NA == [k |-> "na", n |-> 0, s |-> ""]
Num(i) == [k |-> "num", n |-> i, s |-> ""]
Str(t) == [k |-> "str", n |-> 0, s |-> t]

MkFrame(d, ix, rs) == [dtypes |-> d, index |-> ix, rows |-> rs]
NoFrame == MkFrame(<<>>, <<>>, <<>>)

NRows(df) == Len(df.rows)
NCols(df) == Len(df.dtypes)
\* DataFrame.empty: any axis of length 0
IsEmpty(df) == NRows(df) = 0 \/ NCols(df) = 0

Column(df, c) == [i \in 1..NRows(df) |-> df.rows[i][c]]
NumCols(df) == {c \in 1..NCols(df) : df.dtypes[c] = "num"}
ObjCols(df) == {c \in 1..NCols(df) : df.dtypes[c] # "num"}

RECURSIVE SortedSeq(_)
SortedSeq(S) ==
    IF S = {} THEN <<>>
    ELSE LET m == CHOOSE x \in S : \A y \in S : x <= y
         IN  <<m>> \o SortedSeq(S \ {m})

\* the rows at the given positions, in the given order, labels kept
TakeRows(df, pos) ==
    MkFrame(df.dtypes,
            [i \in 1..Len(pos) |-> df.index[pos[i]]],
            [i \in 1..Len(pos) |-> df.rows[pos[i]]])

(***************************************************************************)
(* pandas operations used by clean().                                      *)
(***************************************************************************)
\* DataFrame.drop_duplicates(): keep="first", NaN equal to NaN
DropDuplicates(df) ==
    TakeRows(df, SortedSeq({i \in 1..NRows(df) :
                              \A j \in 1..(i - 1) : df.rows[j] # df.rows[i]}))

\* a median that takes the lower of the two middle values
MedianLow(col) ==
    LET have == {i \in DOMAIN col : col[i].k = "num"}
        n    == Cardinality(have)
        Kth(k) == CHOOSE v \in {col[i].n : i \in have} :
                     /\ Cardinality({i \in have : col[i].n < v}) < k
                     /\ Cardinality({i \in have : col[i].n <= v}) >= k
    IN  IF n = 0 THEN NA ELSE Num(Kth((n + 1) \div 2))

\* Series.median(): skipna; NaN for a column without values.  The cell
\* texts of the model denote odd numbers, so the mean of two middle values
\* is a whole number.
Median(col) ==
    LET have == {i \in DOMAIN col : col[i].k = "num"}
        n    == Cardinality(have)
        Kth(k) == CHOOSE v \in {col[i].n : i \in have} :
                     /\ Cardinality({i \in have : col[i].n < v}) < k
                     /\ Cardinality({i \in have : col[i].n <= v}) >= k
    IN  IF n = 0 THEN NA
        ELSE IF n % 2 = 1 THEN Num(Kth((n + 1) \div 2))
        ELSE Num((Kth(n \div 2) + Kth(n \div 2 + 1)) \div 2)

\* Series.fillna(value): a NaN value fills nothing
FillNa(cell, value) == IF cell.k = "na" THEN value ELSE cell

\* lexicographic rank of the cell texts, the order Series.mode() sorts by
StrRank == [s \in {"1", "2", "3", "a", "b"} |->
              CASE s = "1" -> 1 [] s = "2" -> 2 [] s = "3" -> 3
                [] s = "a" -> 4 [] s = "b" -> 5]

Count(col, v) == Cardinality({i \in DOMAIN col : col[i] = v})

\* Series.mode(dropna=True): the most frequent values, sorted
ModeValues(col) ==
    LET vals == {col[i] : i \in {j \in DOMAIN col : col[j].k # "na"}}
    IN  {v \in vals : \A w \in vals : Count(col, w) <= Count(col, v)}

\* .iloc[0] of the mode; raises IndexError on an empty mode
ModeFirst(col) ==
    CHOOSE v \in ModeValues(col) :
        \A w \in ModeValues(col) : StrRank[v.s] <= StrRank[w.s]

\* lines 85-87: for col in numeric columns: fillna(median)
ImputeNumeric(df) ==
    MkFrame(df.dtypes, df.index,
        [i \in 1..NRows(df) |->
            [c \in 1..NCols(df) |->
                IF c \in NumCols(df)
                THEN FillNa(df.rows[i][c], Median(Column(df, c)))
                ELSE df.rows[i][c]]])

\* lines 88-94: for col in other columns: fillna(mode), exceptions passed
ImputeCategorical(df) ==
    MkFrame(df.dtypes, df.index,
        [i \in 1..NRows(df) |->
            [c \in 1..NCols(df) |->
                IF c \in ObjCols(df) /\ ModeValues(Column(df, c)) # {}
                THEN FillNa(df.rows[i][c], ModeFirst(Column(df, c)))
                ELSE df.rows[i][c]]])

\* an object holding a frame; alias says it is the caller's own object
AliasCopy(df) == [val |-> df, alias |-> TRUE]
\* DataFrame.copy(): a new object with the same content
DfCopy(df) == [val |-> df, alias |-> FALSE]

\* lines 83-84
CleanDropDupes(o, dd) ==
    IF dd THEN [val |-> DropDuplicates(o.val), alias |-> FALSE] ELSE o
\* lines 85-87
CleanImputeNum(o, inum) ==
    IF inum THEN [val |-> ImputeNumeric(o.val), alias |-> o.alias] ELSE o
\* lines 88-94
CleanImputeCat(o, icat) ==
    IF icat THEN [val |-> ImputeCategorical(o.val), alias |-> o.alias] ELSE o
\* line 95: out is the returned frame, arg the content of the argument
\* object when clean returns (out's, if out is that very object)
CleanReturn(df, o) ==
    [out |-> o.val, alias |-> o.alias, arg |-> IF o.alias THEN o.val ELSE df]

\* a clean that drops the duplicates after the imputation
CleanDedupLast(df, dd, inum, icat) ==
    CleanReturn(df,
        CleanDropDupes(CleanImputeCat(CleanImputeNum(DfCopy(df), inum), icat),
                       dd))

\* clean(df), lines 81-95, under the three toggles
clean(df, dd, inum, icat) ==
    CleanReturn(df,
        CleanImputeCat(CleanImputeNum(CleanDropDupes(DfCopy(df), dd), inum),
                       icat))

(***************************************************************************)
(* Uploaded files.  A name is a sequence of characters.  A content is CSV  *)
(* text (a header of ncols column names and rows of cell texts), an Excel  *)
(* workbook (named sheets, each a table of cell texts) or bytes that are   *)
(* neither.                                                                *)
(***************************************************************************)
RawTable(nc, cs) == [ncols |-> nc, cells |-> cs]
NoTable == RawTable(0, <<>>)
CsvContent(t) == [fmt |-> "csv", table |-> t, sheets |-> <<>>]
BookContent(ss) == [fmt |-> "book", table |-> NoTable, sheets |-> ss]
JunkContent == [fmt |-> "junk", table |-> NoTable, sheets |-> <<>>]
NoFile == [name |-> <<>>, content |-> JunkContent]

\* str.lower() on the characters of the model's names
LowerChar(ch) ==
    CASE ch = "X" -> "x" [] ch = "L" -> "l" [] ch = "S" -> "s"
      [] ch = "C" -> "c" [] ch = "V" -> "v" [] OTHER -> ch
Lower(w) == [i \in 1..Len(w) |-> LowerChar(w[i])]

\* name.split(".")[-1]: what follows the last dot, the whole name without one
Suffix(name) ==
    LET dots == {i \in 1..Len(name) : name[i] = "."}
        last == IF dots = {} THEN 0
                ELSE CHOOSE i \in dots : \A j \in dots : j <= i
    IN  SubSeq(name, last + 1, Len(name))

\* line 17: suffix in ["xls", "xlsx"]
IsExcelName(name) ==
    Lower(Suffix(name)) \in {<<"x", "l", "s">>, <<"x", "l", "s", "x">>}

\* the numbers the cell texts of the model denote
NumText == [t \in {"1", "3"} |-> IF t = "1" THEN 1 ELSE 3]

\* the parser's dtype inference and cell conversion, shared by both readers:
\* an empty text is NaN; a column of numbers and NaN is numeric, a column
\* with any other text (or of a table without rows) is object
ParseTable(t) ==
    LET n == Len(t.cells)
        IsNum(c) == n > 0 /\ \A i \in 1..n :
                        t.cells[i][c] = "" \/ t.cells[i][c] \in DOMAIN NumText
        Cell(i, c) == IF t.cells[i][c] = "" THEN NA
                      ELSE IF IsNum(c) THEN Num(NumText[t.cells[i][c]])
                      ELSE Str(t.cells[i][c])
    IN  MkFrame([c \in 1..t.ncols |-> IF IsNum(c) THEN "num" ELSE "obj"],
                [i \in 1..n |-> i - 1],
                [i \in 1..n |-> [c \in 1..t.ncols |-> Cell(i, c)]])

Returned(df) == [tag |-> "frame", frame |-> df]
ReturnedDict == [tag |-> "dict", frame |-> NoFrame]
Raised == [tag |-> "raise", frame |-> NoFrame]

\* pd.read_csv(file): raises on bytes that are no text and on text without
\* a header line (EmptyDataError)
ReadCsv(content) ==
    IF content.fmt # "csv" \/ content.table.ncols = 0 THEN Raised
    ELSE Returned(ParseTable(content.table))

\* the sheet_name argument: None, or a sheet's name
NoneArg == [none |-> TRUE, name |-> ""]
NameArg(s) == [none |-> FALSE, name |-> s]
\* line 66: sheet if sheet else None
SheetArg(s) == IF s = "" THEN NoneArg ELSE NameArg(s)

\* pd.read_excel(file, sheet_name=...): raises on bytes that are no workbook
\* and on an unknown sheet; sheet_name=None returns a dict of all sheets
ReadExcel(content, sheet_name) ==
    IF content.fmt # "book" THEN Raised
    ELSE IF sheet_name.none THEN ReturnedDict
    ELSE LET hit == {i \in 1..Len(content.sheets) :
                        content.sheets[i].name = sheet_name.name}
         IN  IF hit = {} THEN Raised
             ELSE Returned(ParseTable(
                      content.sheets[CHOOSE i \in hit : TRUE].table))

\* lines 15-19
load_file(f, sheet_name) ==
    IF IsExcelName(f.name) THEN ReadExcel(f.content, sheet_name)
    ELSE ReadCsv(f.content)

(***************************************************************************)
(* st.cache_data on load_file: a memo table keyed by the hash of the       *)
(* arguments (for an UploadedFile its name and bytes).  A call that raises *)
(* stores nothing.  The file object is fresh, at position 0, in each run.  *)
(***************************************************************************)
CacheKeyFileOnly(f, sheet_name) ==
    [name |-> f.name, content |-> f.content, sheet_name |-> NoneArg]
CacheKey(f, sheet_name) ==
    [name |-> f.name, content |-> f.content, sheet_name |-> sheet_name]

\* a miss: the function runs, and its result is stored unless it raised
Miss(memo, key, r) ==
    [result |-> r, hit |-> FALSE,
     memo |-> IF r.tag = "raise" THEN memo
              ELSE memo \cup {[key |-> key, val |-> r]}]

Lookup(memo, key, f, sheet_name) ==
    IF \E e \in memo : e.key = key
    THEN [result |-> (CHOOSE e \in memo : e.key = key).val, hit |-> TRUE,
          memo |-> memo]
    ELSE Miss(memo, key, load_file(f, sheet_name))

CachedLoad(memo, f, sheet_name) ==
    Lookup(memo, CacheKey(f, sheet_name), f, sheet_name)

(***************************************************************************)
(* Sampling, line 78.                                                      *)
(***************************************************************************)
Min(a, b) == IF a <= b THEN a ELSE b

\* DataFrame.sample(n, random_state=7): the first n rows of the permutation
\* the seeded generator draws for a frame of this length
Sample(df, n, seed) == TakeRows(df, SubSeq(seed[NRows(df)], 1, n))

Display(df, n, seed) ==
    IF n # 0 THEN [val |-> Sample(df, Min(n, NRows(df)), seed), alias |-> FALSE]
    ELSE DfCopy(df)

(***************************************************************************)
(* The widgets of the tabs and their defaults.  A widget that a run does   *)
(* not render, or renders with other options, starts from its default.     *)
(***************************************************************************)
\* x is a column; y is a column or 0, "(count)"; color a column or 0, "(none)"
DefaultChart == [x |-> 1, y |-> 0, color |-> 0, kind |-> "bar", agg |-> "count"]
Kinds == {"bar", "line", "scatter", "box"}
Aggs == {"count", "sum", "mean", "median"}
ChartChoices(ncols) ==
    [x : 1..ncols, y : 0..ncols, color : 0..ncols, kind : Kinds, agg : Aggs]
DefaultPca == [components |-> MinComponents]

(***************************************************************************)
(* Tab 2, lines 31-36 and 126: missing cells per column.                   *)
(***************************************************************************)
missing_table(df) ==
    [c \in 1..NCols(df) |->
        Cardinality({i \in 1..NRows(df) : df.rows[i][c].k = "na"})]

(***************************************************************************)
(* Tab 3, lines 157-202.  What the tab ends in: "chart", "info" (the       *)
(* message, no chart) or "error" (an exception leaves the script).         *)
(*  - reset_index() cannot insert a group column twice, so grouping by     *)
(*    [x, color] with color = x raises ValueError;                         *)
(*  - SeriesGroupBy.agg("mean" / "median") raises on an object column;     *)
(*    "sum" concatenates strings and "count" counts.                       *)
(***************************************************************************)
GroupCols(ch) == <<ch.x>> \o (IF ch.color # 0 THEN <<ch.color>> ELSE <<>>)

AggregateRaises(df, ch) ==
    \/ Len(GroupCols(ch)) = 2 /\ GroupCols(ch)[1] = GroupCols(ch)[2]
    \/ /\ ch.y # 0
       /\ ch.agg \in {"mean", "median"}
       /\ df.dtypes[ch.y] # "num"

ChartOutcome(df, ch) ==
    IF AggregateRaises(df, ch) THEN "error"
    ELSE IF ch.kind = "scatter" /\ ch.y = 0 THEN "info"
    ELSE "chart"

(***************************************************************************)
(* Tab 4, lines 206-239.                                                   *)
(***************************************************************************)
\* positions of the rows select_dtypes(np.number).dropna(axis=0) keeps
CompleteRows(df) ==
    {i \in 1..NRows(df) : \A c \in NumCols(df) : df.rows[i][c].k # "na"}

\* line 207
PcaGate(df) ==
    /\ Cardinality(NumCols(df)) >= PcaGateMin
    /\ Cardinality(CompleteRows(df)) >= PcaGateMin

\* line 211: the slider's upper end
SliderMax(df) == Min(MaxComponents, Cardinality(NumCols(df)))

\* PCA(n_components=k).fit_transform(X) raises ValueError unless
\* k <= min(n_samples, n_features)
PcaFits(df, k) ==
    k <= Min(Cardinality(CompleteRows(df)), Cardinality(NumCols(df)))

NoDownload == [offered |-> FALSE, data |-> NoFrame, pc_index |-> {}]
\* a CSV download of the frame's rows; pc_index are the index labels whose
\* rows carry PC1, PC2 (the left join leaves the others NaN)
Download(df, pcs) == [offered |-> TRUE, data |-> df, pc_index |-> pcs]

(***************************************************************************)
(* The script, lines 60-239.                                               *)
(***************************************************************************)
BaseView ==
    [messages |-> <<>>, stopped |-> FALSE, raised |-> "",
     load_tag |-> "none", loaded |-> NoFrame,
     df_raw |-> NoFrame, df_display |-> NoFrame,
     df_clean_full |-> NoFrame, df_clean_display |-> NoFrame,
     cleaned |-> FALSE, tabs |-> FALSE,
     csv_download |-> NoDownload, missing |-> <<>>,
     chart_out |-> "none", chart_cols |-> 0,
     pca_out |-> "none", pca_max |-> 0, pca_download |-> NoDownload]

\* lines 60-62, 67-69, 71-73: one message, then st.stop()
Stopped(msg, tag, df) ==
    [BaseView EXCEPT !.messages = <<msg>>, !.stopped = TRUE,
                     !.load_tag = tag, !.loaded = df, !.df_raw = df]

\* lines 204-239, with the slider's value
Tab4(v, disp, gate, pw1) ==
    IF ~gate THEN
        [view |-> [v EXCEPT !.messages = @ \o <<"info">>, !.pca_out = "info"],
         pcaw |-> pw1]
    ELSE IF ~PcaFits(disp, pw1.components) THEN
        [view |-> [v EXCEPT !.raised = "tab4", !.pca_out = "error",
                            !.pca_max = SliderMax(disp)],
         pcaw |-> pw1]
    ELSE
        [view |-> [v EXCEPT
                     !.pca_out = "rendered", !.pca_max = SliderMax(disp),
                     !.pca_download =
                         Download(disp, {disp.index[i] : i \in CompleteRows(disp)})],
         pcaw |-> pw1]

\* lines 146-202, with the select boxes' values; an exception ends the run
Tab3(v, disp, ch1, t3, pw, prev) ==
    IF t3 = "error" THEN
        [view |-> [v EXCEPT !.raised = "tab3", !.chart_out = t3],
         chart |-> ch1, pcaw |-> DefaultPca]
    ELSE
        [view |-> Tab4([v EXCEPT !.chart_out = t3,
                          !.messages = @ \o (IF t3 = "info" THEN <<"info">>
                                             ELSE <<>>)],
                       disp, PcaGate(disp),
                       IF PcaGate(disp) /\ prev.pca_max = SliderMax(disp)
                       THEN pw ELSE DefaultPca).view,
         chart |-> ch1,
         pcaw |-> IF PcaGate(disp) /\ prev.pca_max = SliderMax(disp)
                  THEN pw ELSE DefaultPca]

\* lines 100-144: the tabs, the preview and the cleaned download, tab 2
Tabs(loaded, raw2, display, full, disp, ch1, pw, prev) ==
    Tab3([BaseView EXCEPT
            !.messages = <<"success">>,
            !.load_tag = "frame", !.loaded = loaded, !.df_raw = raw2,
            !.df_display = display,
            !.df_clean_full = full, !.df_clean_display = disp,
            !.cleaned = TRUE, !.tabs = TRUE,
            !.csv_download = Download(full, {}),
            !.missing = missing_table(disp),
            !.chart_cols = NCols(disp)],
         disp, ch1, ChartOutcome(disp, ch1), pw, prev)

\* lines 97-98, given df_display: c1 is clean(df_raw), c2 clean(df_display)
Cleaned(raw, d0, c1, c2, ch, pw, prev) ==
    Tabs(raw, IF d0.alias THEN c2.arg ELSE c1.arg, c2.arg, c1.out, c2.out,
         IF prev.chart_cols = NCols(c2.out) THEN ch ELSE DefaultChart,
         pw, prev)

Sampled(raw, d0, c1, dd, inum, icat, ch, pw, prev) ==
    Cleaned(raw, d0, c1,
            clean(IF d0.alias THEN c1.arg ELSE d0.val, dd, inum, icat),
            ch, pw, prev)

\* lines 75-239, entered with a non-empty df_raw
Render(raw, dd, inum, icat, n, ch, pw, seed, prev) ==
    Sampled(raw, Display(raw, n, seed), clean(raw, dd, inum, icat),
            dd, inum, icat, ch, pw, prev)

\* what a run leaves: the view, the memo table, the tab widgets' state
Left(v, memo, ch, pw) ==
    [view |-> v, cache |-> memo, served |-> FALSE, chart |-> ch, pcaw |-> pw]
LeftBy(t, memo) == Left(t.view, memo, t.chart, t.pcaw)

\* lines 64-239, with load_file's outcome r
Loaded(r, memo, dd, inum, icat, n, ch, pw, seed, prev) ==
    IF r.tag = "raise"
    THEN Left(Stopped("error", "raise", NoFrame), memo, DefaultChart, DefaultPca)
    ELSE IF r.tag = "dict"
    \* line 71: a dict has no attribute 'empty'
    THEN Left([BaseView EXCEPT !.raised = "line71", !.load_tag = "dict"],
              memo, DefaultChart, DefaultPca)
    ELSE IF IsEmpty(r.frame)
    THEN Left(Stopped("warning", "frame", r.frame), memo,
              DefaultChart, DefaultPca)
    ELSE LeftBy(Render(r.frame, dd, inum, icat, n, ch, pw, seed, prev), memo)

LoadedBy(ld, dd, inum, icat, n, ch, pw, seed, prev) ==
    [Loaded(ld.result, ld.memo, dd, inum, icat, n, ch, pw, seed, prev)
        EXCEPT !.served = ld.hit]

\* the whole script: what it shows, and the widget and memo state it leaves
Script(up, f, sh, dd, inum, icat, n, ch, pw, seed, memo, prev) ==
    IF ~up
    THEN Left(Stopped("info", "none", NoFrame), memo, DefaultChart, DefaultPca)
    ELSE LoadedBy(CachedLoad(memo, f, SheetArg(sh)),
                  dd, inum, icat, n, ch, pw, seed, prev)

(***************************************************************************)
(* One user interaction: the widget values after it, then the script.      *)
(***************************************************************************)
Apply(up, f, sh, dd, inum, icat, n, r) ==
    /\ Cardinality(r.cache) <= MaxCache
    /\ uploaded' = up /\ file' = f /\ sheet' = sh
    /\ drop_dupes' = dd /\ impute_num' = inum /\ impute_cat' = icat
    /\ sample_rows' = n
    /\ chart' = r.chart /\ pcaw' = r.pcaw
    /\ cache' = r.cache /\ served' = r.served /\ view' = r.view
    /\ seed7' = seed7

Rerun(up, f, sh, dd, inum, icat, n, ch, pw) ==
    Apply(up, f, sh, dd, inum, icat, n,
          Script(up, f, sh, dd, inum, icat, n, ch, pw, seed7, cache, view))

\* the first run of a session: default widgets, empty memo table
FirstRun(up, f, seed) ==
    Script(up, f, "", TRUE, TRUE, TRUE, 0, DefaultChart, DefaultPca,
           seed, {}, BaseView)

StartAs(up, f, r) ==
    /\ uploaded = up /\ file = f /\ sheet = ""
    /\ drop_dupes = TRUE /\ impute_num = TRUE /\ impute_cat = TRUE
    /\ sample_rows = 0
    /\ chart = r.chart /\ pcaw = r.pcaw
    /\ cache = r.cache /\ served = r.served /\ view = r.view

Start(up, f) == StartAs(up, f, FirstRun(up, f, seed7))

\* the row orders a seeded generator can give: one permutation per length
Perms(n) == {p \in [1..n -> 1..n] : \A i, j \in 1..n : p[i] = p[j] => i = j}
\* every order the generator can have for frames of up to maxn rows
Seeds(maxn) ==
    {s \in [0..maxn -> UNION {Perms(n) : n \in 0..maxn}] :
        \A n \in 0..maxn : s[n] \in Perms(n)}
\* the order p for frames of n rows (the only length a session with one
\* file draws)
SeedFor(n, p) == [m \in {n} |-> p]

SampleValues == {0, SampleStep}

UploadFile(files) ==
    \E f \in files :
        /\ ~uploaded \/ f # file
        /\ Rerun(TRUE, f, sheet, drop_dupes, impute_num, impute_cat,
                 sample_rows, chart, pcaw)

RemoveFile ==
    /\ uploaded
    /\ Rerun(FALSE, NoFile, sheet, drop_dupes, impute_num, impute_cat,
             sample_rows, chart, pcaw)

SetSheet(names) ==
    \E s \in names \ {sheet} :
        Rerun(uploaded, file, s, drop_dupes, impute_num, impute_cat,
              sample_rows, chart, pcaw)

ToggleDropDupes ==
    \E b \in {~drop_dupes} :
        Rerun(uploaded, file, sheet, b, impute_num, impute_cat,
              sample_rows, chart, pcaw)

ToggleImputeNum ==
    \E b \in {~impute_num} :
        Rerun(uploaded, file, sheet, drop_dupes, b, impute_cat,
              sample_rows, chart, pcaw)

ToggleImputeCat ==
    \E b \in {~impute_cat} :
        Rerun(uploaded, file, sheet, drop_dupes, impute_num, b,
              sample_rows, chart, pcaw)

SetSample ==
    \E n \in SampleValues \ {sample_rows} :
        Rerun(uploaded, file, sheet, drop_dupes, impute_num, impute_cat,
              n, chart, pcaw)

\* tab 3's select boxes exist once a run has rendered them
SelectChart ==
    /\ view.chart_cols > 0
    /\ \E c \in ChartChoices(view.chart_cols) \ {chart} :
           Rerun(uploaded, file, sheet, drop_dupes, impute_num, impute_cat,
                 sample_rows, c, pcaw)

\* tab 4's slider exists once a run has rendered it
SetComponents ==
    /\ view.pca_max > 0
    /\ \E k \in (MinComponents..view.pca_max) \ {pcaw.components} :
           Rerun(uploaded, file, sheet, drop_dupes, impute_num, impute_cat,
                 sample_rows, chart, [components |-> k])

(***************************************************************************)
(* Spec: a session.  Files come and go, the sheet name and the sidebar     *)
(* widgets change, the memo table fills.                                   *)
(***************************************************************************)
NameCsv == <<"d", ".", "c", "s", "v">>
NameXlsx == <<"d", ".", "x", "l", "s", "x">>
NameXLS == <<"d", ".", "X", "L", "S">>
FileNames == {NameCsv, NameXlsx, NameXLS}

TableA == RawTable(2, << <<"1", "a">>, <<"", "a">> >>)
HeaderOnly == RawTable(2, <<>>)
BookA == BookContent(<< [name |-> "S1", table |-> TableA] >>)
\* a CSV text under an Excel name, a workbook under a CSV name and an
\* unknown sheet name are the parse failures
Contents == {CsvContent(HeaderOnly), CsvContent(TableA), BookA}
Files == [name : FileNames, content : Contents]
SheetNames == {"", "S1", "S9"}

Init ==
    /\ seed7 \in Seeds(2)
    /\ Start(FALSE, NoFile)

Next ==
    \/ UploadFile(Files)
    \/ RemoveFile
    \/ SetSheet(SheetNames)
    \/ ToggleDropDupes
    \/ ToggleImputeNum
    \/ ToggleImputeCat
    \/ SetSample

Spec == Init /\ [][Next]_vars

(***************************************************************************)
(* SpecClean: one uploaded CSV file, any table of the family below; the    *)
(* cleaning toggles and the sample slider change.                          *)
(***************************************************************************)
RowsOf(texts, nc, maxn) ==
    UNION {[1..n -> [1..nc -> texts]] : n \in 1..maxn}
\* tables of one column, of numbers or of strings, and shorter tables of a
\* column of numbers and a column of strings; any cell may be empty
CleanTables ==
    {RawTable(1, cs) : cs \in RowsOf({"", "1", "3"}, 1, MaxRows)
                              \cup RowsOf({"", "1", "a"}, 1, MaxRows)}
    \cup {RawTable(2, cs) :
            cs \in UNION {[1..n -> {<<a, b>> : a \in {"", "1", "3"},
                                               b \in {"", "a"}}] :
                          n \in 1..(MaxRows - 1)}}

CsvFile(t) == [name |-> NameCsv, content |-> CsvContent(t)]

InitWith(tables) ==
    \E t \in tables :
        /\ seed7 \in {SeedFor(Len(t.cells), p) : p \in Perms(Len(t.cells))}
        /\ Start(TRUE, CsvFile(t))

InitClean == InitWith(CleanTables)

NextClean ==
    \/ ToggleDropDupes
    \/ ToggleImputeNum
    \/ ToggleImputeCat
    \/ SetSample

SpecClean == InitClean /\ [][NextClean]_vars

(***************************************************************************)
(* SpecChart: one uploaded CSV file; the Chart Builder's select boxes, the  *)
(* categorical toggle and the sample slider change.                        *)
(***************************************************************************)
ChartTables ==
    {RawTable(2, <<r>>) : r \in {<<a, b>> : a \in {"1"}, b \in {"1", "a"}}}

InitChart == InitWith(ChartTables)

NextChart ==
    \/ SelectChart
    \/ ToggleImputeCat
    \/ SetSample

SpecChart == InitChart /\ [][NextChart]_vars

(***************************************************************************)
(* SpecPca: one uploaded CSV file of numeric columns; the toggles that     *)
(* change the numeric data, the sample slider and the PCA slider change.   *)
(***************************************************************************)
PcaTables ==
    {RawTable(nc, cs) :
        nc \in {MaxPcaCols},
        cs \in UNION {[1..n -> [1..MaxPcaCols -> {"", "1"}]] :
                      n \in 2..MaxPcaRows}}

InitPca == InitWith(PcaTables)

NextPca ==
    \/ ToggleDropDupes
    \/ ToggleImputeNum
    \/ SetSample
    \/ SetComponents

SpecPca == InitPca /\ [][NextPca]_vars

(***************************************************************************)
(* Properties.                                                             *)
(***************************************************************************)
NoDownloads == ~view.csv_download.offered /\ ~view.pca_download.offered
StoppedWith(msg) ==
    /\ view.messages = <<msg>> /\ view.stopped
    /\ ~view.cleaned /\ ~view.tabs /\ NoDownloads

\* C1: tabs and downloads are rendered only if a file was uploaded, load_file
\* returned without raising and the loaded dataset is non-empty; without a
\* file, on a parse failure and on an empty dataset the run shows exactly one
\* message (info, error, warning) and stops before any cleaning, tab or
\* download, and a run that does not reach the tabs never ends in an
\* unhandled error.
C1_GatesStopWithOneMessage ==
    /\ (view.tabs \/ ~NoDownloads) =>
           /\ uploaded
           /\ load_file(file, SheetArg(sheet)).tag = "frame"
           /\ ~IsEmpty(load_file(file, SheetArg(sheet)).frame)
    /\ ~uploaded => StoppedWith("info")
    /\ (uploaded /\ load_file(file, SheetArg(sheet)).tag = "raise")
           => StoppedWith("error")
    /\ (uploaded /\ load_file(file, SheetArg(sheet)).tag = "frame"
                 /\ IsEmpty(load_file(file, SheetArg(sheet)).frame))
           => StoppedWith("warning")
    /\ ~view.tabs => view.raised = ""

\* C6: for an upload named *.xls or *.xlsx (in any case) and a blank sheet
\* name, a load_file that does not raise yields one table, and the run then
\* renders or stops with a message; any other name is read as CSV.
C6_BlankSheetLoadsOneTable ==
    /\ (uploaded /\ IsExcelName(file.name) /\ sheet = ""
                 /\ view.load_tag # "raise")
           => /\ view.load_tag = "frame"
              /\ view.raised = ""
              /\ view.tabs \/ (view.stopped /\ Len(view.messages) = 1)
    /\ (uploaded /\ ~IsExcelName(file.name))
           => view.load_tag = ReadCsv(file.content).tag

SameRows(a, b) ==
    \A r \in {a.rows[i] : i \in 1..NRows(a)} \cup {b.rows[i] : i \in 1..NRows(b)} :
        Cardinality({i \in 1..NRows(a) : a.rows[i] = r})
            = Cardinality({i \in 1..NRows(b) : b.rows[i] = r})

\* C2: every download offered holds the rows of the full cleaned data,
\* clean(df_raw), whatever the sample slider says.
C2_DownloadsUseFullData ==
    /\ view.csv_download.offered
           => SameRows(view.csv_download.data, view.df_clean_full)
    /\ view.pca_download.offered
           => SameRows(view.pca_download.data, view.df_clean_full)

\* C3: after the run df_raw holds exactly what load_file returned.
C3_RawUnchanged ==
    view.cleaned =>
        /\ view.df_raw = view.loaded
        /\ view.loaded = load_file(file, SheetArg(sheet)).frame

\* both clean calls changed their copies, one of them a sample
C3_CleanChangedItsCopy ==
    /\ view.cleaned /\ sample_rows # 0 /\ ~drop_dupes
    /\ view.df_clean_full # view.df_raw
    /\ view.df_clean_display # view.df_display
    /\ NRows(view.df_display) < NRows(view.df_raw)

\* index labels of the first occurrence of each distinct row
FirstOccurrences(df) ==
    {df.index[i] : i \in {k \in 1..NRows(df) :
                            \A j \in 1..(k - 1) : df.rows[j] # df.rows[k]}}

\* C4: with 'Drop duplicate rows' on, the cleaned full data has one row per
\* distinct row of the upload, the first occurrence of each, in upload order;
\* with it off it has the upload's row count; the imputation toggles do not
\* enter the count.
C4_RowCount ==
    view.cleaned =>
        /\ drop_dupes =>
              /\ NRows(view.df_clean_full)
                    = Cardinality({view.loaded.rows[i] :
                                      i \in 1..NRows(view.loaded)})
              /\ view.df_clean_full.index
                    = SortedSeq(FirstOccurrences(view.loaded))
        /\ ~drop_dupes =>
              /\ NRows(view.df_clean_full) = NRows(view.loaded)
              /\ view.df_clean_full.index = view.loaded.index

\* an upload with exactly one duplicated row, imputation on
C4_OneDuplicateDropped ==
    /\ view.cleaned /\ drop_dupes /\ impute_num /\ impute_cat
    /\ NRows(view.loaded) = 3
    /\ NRows(view.df_clean_full) = NRows(view.loaded) - 1
    /\ \E i \in 1..NRows(view.loaded) : \E c \in 1..NCols(view.loaded) :
           view.loaded.rows[i][c].k = "na"

\* the cells of column c of the rows of `src' that `out' kept (the column of
\* the data after deduplication, before imputation), as a function of label
KeptColumn(src, out, c) ==
    [L \in {out.index[i] : i \in 1..NRows(out)} |->
        src.rows[CHOOSE k \in 1..NRows(src) : src.index[k] = L][c]]

\* m is the median of the numbers of the column
IsMedian(m, col) ==
    LET have  == {i \in DOMAIN col : col[i].k = "num"}
        below == {i \in have : col[i].n < m}
        above == {i \in have : col[i].n > m}
    IN  /\ have # {}
        /\ IF \E i \in have : col[i].n = m
           THEN /\ 2 * Cardinality(below) < Cardinality(have)
                /\ 2 * Cardinality(above) < Cardinality(have)
           ELSE /\ Cardinality(below) = Cardinality(above)
                /\ \E i \in below : \E j \in above :
                      /\ \A k \in below : col[k].n <= col[i].n
                      /\ \A k \in above : col[k].n >= col[j].n
                      /\ 2 * m = col[i].n + col[j].n

\* v is a most frequent value of the column
IsMostFrequent(v, col) ==
    /\ v.k # "na"
    /\ \E i \in DOMAIN col : col[i] = v
    /\ \A j \in DOMAIN col :
           col[j].k # "na" =>
               Cardinality({i \in DOMAIN col : col[i] = col[j]})
                   <= Cardinality({i \in DOMAIN col : col[i] = v})

HasValue(col) == \E i \in DOMAIN col : col[i].k # "na"

\* what clean's imputation does to the cell at row i, column c of its result;
\* `total' states it for every column, otherwise for the columns that have
\* a value and with the others left as they were
ImputedCell(src, out, i, c, total) ==
    LET col == KeptColumn(src, out, c)
        old == col[out.index[i]]
        new == out.rows[i][c]
    IN  IF old.k # "na" THEN new = old
        ELSE IF src.dtypes[c] = "num"
        THEN IF ~impute_num THEN new = NA
             ELSE IF total \/ HasValue(col)
             THEN new.k = "num" /\ IsMedian(new.n, col)
             ELSE new = NA
        ELSE IF ~impute_cat THEN new = NA
             ELSE IF total \/ HasValue(col)
             THEN IsMostFrequent(new, col)
             ELSE new = NA

Imputed(src, out, total) ==
    /\ out.dtypes = src.dtypes
    /\ \A i \in 1..NRows(out) : \A c \in 1..NCols(out) :
           ImputedCell(src, out, i, c, total)
    /\ (~drop_dupes /\ ~impute_num /\ ~impute_cat) => out = src

\* C8 as stated: every missing numeric cell becomes the median of its column
\* in the deduplicated data, so that no numeric column keeps a missing cell,
\* and every missing cell of another column becomes its most frequent value.
C8_EveryMissingCellFilled ==
    view.cleaned =>
        /\ Imputed(view.loaded, view.df_clean_full, TRUE)
        /\ Imputed(view.df_display, view.df_clean_display, TRUE)

\* C8 amended: the same for the columns that have a value after
\* deduplication; a column whose cells are all missing stays missing.
C8_MissingCellsFilledWhereAValueExists ==
    view.cleaned =>
        /\ Imputed(view.loaded, view.df_clean_full, FALSE)
        /\ Imputed(view.df_display, view.df_clean_display, FALSE)

\* a run that filled a numeric cell with its column's median and a cell of
\* another column with its most frequent value
C8_BothKindsFilled ==
    /\ view.cleaned /\ impute_num /\ impute_cat
    /\ \E i \in 1..NRows(view.loaded) : \E c \in NumCols(view.loaded) :
           /\ view.loaded.rows[i][c].k = "na"
           /\ \E j \in 1..NRows(view.df_clean_full) :
                 /\ view.df_clean_full.index[j] = view.loaded.index[i]
                 /\ view.df_clean_full.rows[j][c].k = "num"
    /\ \E i \in 1..NRows(view.df_display) : \E c \in ObjCols(view.df_display) :
           /\ view.df_display.rows[i][c].k = "na"
           /\ \E j \in 1..NRows(view.df_clean_display) :
                 /\ view.df_clean_display.index[j] = view.df_display.index[i]
                 /\ view.df_clean_display.rows[j][c].k = "str"

\* C9: with 'Drop duplicate rows' on, what clean returns - the cleaned CSV
\* download - has no two identical rows, whatever the imputation toggles.
C9_NoDuplicateRows ==
    (view.cleaned /\ drop_dupes) =>
        \A i, j \in 1..NRows(view.csv_download.data) :
            view.csv_download.data.rows[i] = view.csv_download.data.rows[j]
                => i = j

\* C5: whatever the selections, the Chart Builder ends in a chart or in the
\* informational message, never in an error, and a scatter whose Y is not a
\* numeric column ends in the message.
C5_ChartOrMessage ==
    view.chart_cols > 0 =>
        /\ view.chart_out \in {"chart", "info"}
        /\ (/\ chart.kind = "scatter"
            /\ \/ chart.y = 0
               \/ view.df_clean_display.dtypes[chart.y] # "num")
               => view.chart_out = "info"

\* C10: PCA is attempted only behind its gate (else the message, and no PCA
\* download), and when it is attempted every value the slider allows is a
\* component count the data admits, the slider's ends in order.
C10_SliderValuesFit ==
    view.tabs /\ view.chart_out # "error" =>
        /\ view.pca_out \in {"rendered", "error"}
               => PcaGate(view.df_clean_display)
        /\ ~PcaGate(view.df_clean_display)
               => /\ view.pca_out = "info"
                  /\ ~view.pca_download.offered
        /\ view.pca_max > 0 =>
               /\ MinComponents <= view.pca_max
               /\ \A k \in MinComponents..view.pca_max :
                      PcaFits(view.df_clean_display, k)
               /\ view.pca_out = "rendered"

====
